---- MODULE Spec2Model ----
(***************************************************************************)
(* State-machine model of src/main.py: the event store, the attack log,   *)
(* the user profiles, the seven detection rules run by instrument(), and  *)
(* the HTTP handlers that call them.                                       *)
(*                                                                         *)
(* Conventions.                                                            *)
(*  - A datetime is an integer number of seconds since midnight of day 0;  *)
(*    a timedelta is a number of seconds.                                  *)
(*  - A context value is a tagged value (bool / num / str / absent key).  *)
(*    A num carries its value in half units (Num(241) is 120.5), which is  *)
(*    enough for every literal of the source.                              *)
(*  - uuid4 ids are not modelled: no rule and no handler reads them.       *)
(*  - A message is its f-string template with the values formatted in.    *)
(*  - The handlers are coroutines on one event loop.  The actions named    *)
(*    after the handlers run a handler from its first statement to its     *)
(*    return; tasks and running hold the same handlers statement by         *)
(*    statement, for the runs in which requests are in flight together.    *)
(***************************************************************************)
EXTENDS Integers, Sequences, FiniteSets, TLC

VARIABLES event_history, attack_logs, user_profiles, response, clock, ingests, sims,
          tasks, running

vars ==
    <<event_history, attack_logs, user_profiles, response, clock, ingests, sims,
      tasks, running>>

(***************************************************************************)
(* Bounds of the model.                                                    *)
(***************************************************************************)
\* Ingest requests (POST /instrument) since the last reset.
MaxIngest == 2
\* Simulation requests since the last reset.
MaxSims == 1
\* Events in the store: a request that would store more is not issued.
MaxHistory == 30
\* Requests in flight together on the event loop.
MaxRequests == 2

(***************************************************************************)
(* DETECTION_CONFIG                                                        *)
(***************************************************************************)
failed_login_threshold == 5
failed_login_time_window == 60
toggle_spam_threshold == 10
toggle_spam_time_window == 30
upper_threshold_percent == 150
lower_threshold_percent == 10
start_business_hours == 8
end_business_hours == 18
distance_threshold_m == 500
geo_anomaly_time_window == 60

(***************************************************************************)
(* Context values: Dict[str, object].                                      *)
(***************************************************************************)
Absent == [tag |-> "absent", b |-> FALSE, n |-> 0, s |-> ""]
Bool(x) == [tag |-> "bool", b |-> x, n |-> 0, s |-> ""]
Num(h) == [tag |-> "num", b |-> FALSE, n |-> h, s |-> ""]
Str(x) == [tag |-> "str", b |-> FALSE, n |-> 0, s |-> x]

\* The keys the rules and the simulations use; a key that is not in the
\* dict holds Absent.
EmptyContext ==
    [success |-> Absent, location |-> Absent, value |-> Absent,
     historical_avg |-> Absent, new_role |-> Absent,
     device |-> Absent, state |-> Absent]

\* key in d
HasKey(v) == v.tag # "absent"

\* d.get(key, default)
GetOr(v, default) == IF HasKey(v) THEN v ELSE default

\* Python truth value of d.get(key): None (absent) is false.
Truthy(v) ==
    CASE v.tag = "bool" -> v.b
      [] v.tag = "num" -> v.n # 0
      [] v.tag = "str" -> v.s # ""
      [] OTHER -> FALSE

\* Whether a value supports the arithmetic and comparisons of
\* check_power_anomalies (a str raises TypeError there).
IsNumber(v) == v.tag = "num"

(***************************************************************************)
(* Time.                                                                   *)
(***************************************************************************)
\* datetime.hour
HourOf(t) == (t \div 3600) % 24

\* datetime.time(), as seconds since midnight
TimeOfDay(t) == t % 86400

\* datetime.replace(hour=h)
ReplaceHour(t, h) == t - (HourOf(t) * 3600) + (h * 3600)

\* Mutant: the end of business hours is inclusive.
is_business_hours_inclusive(timestamp) ==
    start_business_hours <= HourOf(timestamp) /\ HourOf(timestamp) <= end_business_hours

is_business_hours(timestamp) ==
    /\ start_business_hours <= HourOf(timestamp)
    /\ HourOf(timestamp) < end_business_hours

(***************************************************************************)
(* calculate_distance_meters.  The coordinate strings of the model and     *)
(* the haversine distance the function returns for each pair, in           *)
(* decimetres (the precision the geo_anomaly message prints).              *)
(***************************************************************************)
LocNY == "40.7128,-74.0060"
LocNY2 == "40.7125,-74.0062"
LocNY3 == "40.7130,-74.0058"
LocCT == "41.7178,-73.0060"
LocON == "51.7178,-83.0060"
LocNear == "40.7172,-74.0060"
LocOver == "40.7174,-74.0060"
LocBad == "somewhere"

Coordinates == {LocNY, LocNY2, LocNY3, LocCT, LocON, LocNear, LocOver}

\* map(float, loc.split(',')) succeeds and yields two numbers
Parses(loc) == loc \in Coordinates

\* R * c of calculate_distance_meters for two coordinate strings that parse,
\* formatted as {distance:.1f} without the decimal point.
DistanceDm(a, b) ==
    CASE a = b -> 0
      [] {a, b} = {LocNY, LocNY2} -> 374
      [] {a, b} = {LocNY, LocNY3} -> 279
      [] {a, b} = {LocNY, LocCT} -> 1395855
      [] {a, b} = {LocNY, LocON} -> 14036179
      [] {a, b} = {LocNY, LocNear} -> 4893
      [] {a, b} = {LocNY, LocOver} -> 5115
      [] {a, b} = {LocNY2, LocNY3} -> 650
      [] {a, b} = {LocNY2, LocCT} -> 1396223
      [] {a, b} = {LocNY2, LocON} -> 14036403
      [] {a, b} = {LocNY2, LocNear} -> 5229
      [] {a, b} = {LocNY2, LocOver} -> 5451
      [] {a, b} = {LocNY3, LocCT} -> 1395576
      [] {a, b} = {LocNY3, LocON} -> 14036055
      [] {a, b} = {LocNY3, LocNear} -> 4673
      [] {a, b} = {LocNY3, LocOver} -> 4895
      [] {a, b} = {LocCT, LocON} -> 13454889
      [] {a, b} = {LocCT, LocNear} -> 1391924
      [] {a, b} = {LocCT, LocOver} -> 1391746
      [] {a, b} = {LocON, LocNear} -> 14031794
      [] {a, b} = {LocON, LocOver} -> 14031595
      [] {a, b} = {LocNear, LocOver} -> 222

\* distance > DETECTION_CONFIG["geo_anomaly"]["distance_threshold_m"]
ExceedsDistance(a, b) == DistanceDm(a, b) > distance_threshold_m * 10

(***************************************************************************)
(* Records.                                                                *)
(***************************************************************************)
UserIds ==
    {"user_attacker_456", "user_normal_123", "user_normal_567",
     "sensor_1", "sensor_2"}

\* user_profiles.get(user_id, {}) of a user with no entry: both lists empty.
NoProfile == [usual_locations |-> <<>>, authorized_devices |-> <<>>]

\* Event(...)
Event(name, role, user, source, ts, ctx) ==
    [event_name |-> name, user_role |-> role, user_id |-> user,
     source_id |-> source, timestamp |-> ts, context |-> ctx]

\* Event.timestamp is None
NoTimestamp == -1

\* EventLog(...) built in instrument
EventLog(event) ==
    [timestamp |-> event.timestamp, event_name |-> event.event_name,
     user_id |-> event.user_id, source_id |-> event.source_id,
     user_role |-> event.user_role, context |-> event.context]

Message(text, nums, strs) == [text |-> text, nums |-> nums, strs |-> strs]

log_attack(attacks, event, detection_type, message) ==
    Append(attacks,
           [timestamp |-> event.timestamp, event_name |-> event.event_name,
            user_id |-> event.user_id, source_id |-> event.source_id,
            user_role |-> event.user_role, detection_type |-> detection_type,
            message |-> message, context |-> event.context])

\* sum(1 for e in event_history if ...)
CountOf(h, Keep(_)) == Cardinality({i \in 1..Len(h) : Keep(h[i])})

\* The state the evaluators run on: the three module globals, and whether the
\* call is still running (ok) or has raised.
Globals(h, a, p) == [h |-> h, a |-> a, p |-> p, ok |-> TRUE]

\* Python's sequencing: the next statement runs unless the one before raised.
AndThen(st, Check(_, _), event) == IF st.ok THEN Check(st, event) ELSE st

Raise(st) == [st EXCEPT !.ok = FALSE]

(***************************************************************************)
(* check_failed_logins                                                     *)
(***************************************************************************)
\* Mutant: a login with no success key counts as a failure.
NotSuccessful_default_false(ctx) == ~Truthy(GetOr(ctx.success, Bool(FALSE)))

\* not context.get("success", True)
NotSuccessful(ctx) == ~Truthy(GetOr(ctx.success, Bool(TRUE)))

failed_attempts(h, event) ==
    LET cutoff == event.timestamp - failed_login_time_window
        Keep(e) == /\ e.event_name = "login_attempt"
                   /\ e.user_id = event.user_id
                   /\ e.timestamp >= cutoff
                   /\ NotSuccessful(e.context)
    IN  CountOf(h, Keep)

check_failed_logins(st, event) ==
    IF event.event_name # "login_attempt" \/ ~NotSuccessful(event.context)
    THEN st
    ELSE IF failed_attempts(st.h, event) >= failed_login_threshold
         THEN [st EXCEPT !.a =
                 log_attack(st.a, event, "failed_login",
                     Message("{failed_attempts} failed login attempts in {time_window}",
                             <<failed_attempts(st.h, event), failed_login_time_window>>,
                             <<>>))]
         ELSE st

(***************************************************************************)
(* check_toggle_spam                                                       *)
(***************************************************************************)
IsToggle(name) == name \in {"toggle_device", "adjust_device"}

IsPrivileged(role) == role \in {"ADMIN", "MANAGER"}

\* Mutant: the count is not restricted to the event's user.
toggle_count_any_user(h, event) ==
    LET cutoff == event.timestamp - toggle_spam_time_window
        Keep(e) == /\ IsToggle(e.event_name)
                   /\ e.timestamp >= cutoff
    IN  CountOf(h, Keep)

toggle_count(h, event) ==
    LET cutoff == event.timestamp - toggle_spam_time_window
        Keep(e) == /\ IsToggle(e.event_name)
                   /\ e.user_id = event.user_id
                   /\ e.timestamp >= cutoff
    IN  CountOf(h, Keep)

check_toggle_spam(st, event) ==
    IF ~IsToggle(event.event_name)
    THEN st
    ELSE IF IsPrivileged(event.user_role) /\ is_business_hours(event.timestamp)
    THEN st
    ELSE IF toggle_count(st.h, event) >= toggle_spam_threshold
         THEN [st EXCEPT !.a =
                 log_attack(st.a, event, "toggle_spam",
                     Message("{toggle_count} toggle commands in {time_window}",
                             <<toggle_count(st.h, event), toggle_spam_time_window>>,
                             <<>>))]
         ELSE st

(***************************************************************************)
(* check_power_anomalies.  With value v and historical_avg a in half       *)
(* units, value > avg * (150 / 100) is 100 * v > 150 * a and              *)
(* value < avg * (10 / 100) is 100 * v < 10 * a: 150 / 100 is the double  *)
(* 1.5, whose products are exact, and the double product avg * 0.1 orders *)
(* against value as the exact product does for every avg and value of     *)
(* half units up to 2^50 in size.                                         *)
(***************************************************************************)
AboveUpper(v, a) == 100 * v > upper_threshold_percent * a

\* Mutant: the drop boundary is not strict.
BelowLower_inclusive(v, a) == 100 * v <= lower_threshold_percent * a

BelowLower(v, a) == 100 * v < lower_threshold_percent * a

check_power_anomalies(st, event) ==
    LET value == event.context.value
        avg == event.context.historical_avg
    IN  IF event.event_name # "power_reading" THEN st
        ELSE IF ~HasKey(value) THEN st
        ELSE IF ~HasKey(avg) THEN st
        ELSE IF ~IsNumber(avg) \/ ~IsNumber(value) THEN Raise(st)
        ELSE IF value.n <= 0
             THEN [st EXCEPT !.a =
                     log_attack(st.a, event, "power_anomaly",
                         Message("Zero or negative power reading", <<>>, <<>>))]
        ELSE IF AboveUpper(value.n, avg.n)
             THEN [st EXCEPT !.a =
                     log_attack(st.a, event, "power_anomaly",
                         Message("Power spike detected ({value} > {upper_threshold})",
                                 <<value.n, upper_threshold_percent * avg.n>>, <<>>))]
        ELSE IF BelowLower(value.n, avg.n)
             THEN [st EXCEPT !.a =
                     log_attack(st.a, event, "power_anomaly",
                         Message("Power drop detected ({value} < {lower_threshold})",
                                 <<value.n, lower_threshold_percent * avg.n>>, <<>>))]
        ELSE st

(***************************************************************************)
(* check_unusual_time_activity                                             *)
(***************************************************************************)
\* Mutant: the rule is not restricted to device and power-level commands.
check_unusual_time_activity_any_event(st, event) ==
    IF IsPrivileged(event.user_role) THEN st
    ELSE IF ~is_business_hours(event.timestamp)
         THEN [st EXCEPT !.a =
                 log_attack(st.a, event, "unusual_time",
                     Message("Activity outside business hours at {timestamp.time()}",
                             <<TimeOfDay(event.timestamp)>>, <<>>))]
         ELSE st

check_unusual_time_activity(st, event) ==
    IF IsPrivileged(event.user_role) THEN st
    ELSE IF event.event_name \notin {"toggle_device", "adjust_device", "set_power_level"}
    THEN st
    ELSE IF ~is_business_hours(event.timestamp)
         THEN [st EXCEPT !.a =
                 log_attack(st.a, event, "unusual_time",
                     Message("Activity outside business hours at {timestamp.time()}",
                             <<TimeOfDay(event.timestamp)>>, <<>>))]
         ELSE st

(***************************************************************************)
(* check_geo_anomalies                                                     *)
(***************************************************************************)
recent_logins(h, event) ==
    LET cutoff == event.timestamp - geo_anomaly_time_window
        Keep(e) == /\ e.event_name = "login_attempt"
                   /\ e.user_id = event.user_id
                   /\ e.timestamp >= cutoff
                   /\ Truthy(e.context.success)
                   /\ HasKey(e.context.location)
    IN  SelectSeq(h, Keep)

\* The for loop over recent_logins from index i on: 0 when it ends without a
\* distance over the threshold, -1 when calculate_distance_meters raises,
\* otherwise the index of the login it breaks on.
RECURSIVE GeoScan(_, _, _)
GeoScan(recent, location, i) ==
    IF i > Len(recent) THEN 0
    ELSE LET login_loc == recent[i].context.location
         IN  IF login_loc.tag # "str" \/ ~Parses(login_loc.s) \/ ~Parses(location)
             THEN -1
             ELSE IF ExceedsDistance(login_loc.s, location) THEN i
             ELSE GeoScan(recent, location, i + 1)

\* Mutant: every located login overwrites the usual locations.
Bootstraps_always(usual_locations) == TRUE

\* Mutant: a user's first located login does not seed the profile.
Bootstraps_never(usual_locations) == FALSE

\* not usual_locations
Bootstraps(usual_locations) == usual_locations = <<>>

check_geo_anomalies(st, event) ==
    LET location == event.context.location
        usual_locations == st.p[event.user_id].usual_locations
        recent == recent_logins(st.h, event)
        hit == GeoScan(recent, location.s, 1)
    IN  IF event.event_name # "login_attempt" \/ ~Truthy(event.context.success)
        THEN st
        ELSE IF ~Truthy(location) THEN st
        ELSE IF Bootstraps(usual_locations)
        THEN [st EXCEPT !.p[event.user_id].usual_locations = <<location.s>>]
        ELSE IF hit = -1 THEN Raise(st)
        ELSE IF hit = 0 THEN st
        ELSE [st EXCEPT !.a =
                log_attack(st.a, event, "geo_anomaly",
                    Message("Login from unusual location {location} (distance: {distance:.1f}m from {login_loc})",
                            <<DistanceDm(recent[hit].context.location.s, location.s)>>,
                            <<location.s, recent[hit].context.location.s>>))]

(***************************************************************************)
(* check_device_impersonation                                              *)
(***************************************************************************)
InList(x, list) == \E i \in 1..Len(list) : list[i] = x

\* Mutant: an empty authorized_devices list is read as "no restriction".
check_device_impersonation_unrestricted(st, event) ==
    IF ~IsToggle(event.event_name) THEN st
    ELSE IF st.p[event.user_id].authorized_devices # <<>>
            /\ ~InList(event.source_id, st.p[event.user_id].authorized_devices)
         THEN [st EXCEPT !.a =
                 log_attack(st.a, event, "device_impersonation",
                     Message("Unauthorized device access: {source_id}",
                             <<>>, <<event.source_id>>))]
         ELSE st

check_device_impersonation(st, event) ==
    IF ~IsToggle(event.event_name) THEN st
    ELSE IF ~InList(event.source_id, st.p[event.user_id].authorized_devices)
         THEN [st EXCEPT !.a =
                 log_attack(st.a, event, "device_impersonation",
                     Message("Unauthorized device access: {source_id}",
                             <<>>, <<event.source_id>>))]
         ELSE st

(***************************************************************************)
(* check_role_escalation                                                   *)
(***************************************************************************)
\* Mutant: only a change to ADMIN counts as an escalation.
check_role_escalation_admin_only(st, event) ==
    LET new_role == event.context.new_role
    IN  IF event.event_name # "change_role" THEN st
        ELSE IF ~IsPrivileged(event.user_role) /\ new_role = Str("ADMIN")
             THEN [st EXCEPT !.a =
                     log_attack(st.a, event, "role_escalation",
                         Message("Unauthorized role change to {new_role}",
                                 <<>>, <<new_role.s>>))]
             ELSE st

check_role_escalation(st, event) ==
    LET new_role == event.context.new_role
    IN  IF event.event_name # "change_role" THEN st
        ELSE IF ~IsPrivileged(event.user_role)
                /\ new_role.tag = "str" /\ IsPrivileged(new_role.s)
             THEN [st EXCEPT !.a =
                     log_attack(st.a, event, "role_escalation",
                         Message("Unauthorized role change to {new_role}",
                                 <<>>, <<new_role.s>>))]
             ELSE st

(***************************************************************************)
(* instrument                                                              *)
(***************************************************************************)
\* Mutant: the checks run before the event is stored.
StoreEvent_skipped(st, event) == st

\* event_history.append(event_log)
StoreEvent(st, event) == [st EXCEPT !.h = Append(st.h, EventLog(event))]

\* Mutant: check_device_impersonation is called before check_unusual_time_activity.
instrument_device_first(st, event) ==
    LET s0 == StoreEvent(st, event)
        s1 == AndThen(s0, check_failed_logins, event)
        s2 == AndThen(s1, check_toggle_spam, event)
        s3 == AndThen(s2, check_power_anomalies, event)
        s4 == AndThen(s3, check_device_impersonation, event)
        s5 == AndThen(s4, check_unusual_time_activity, event)
        s6 == AndThen(s5, check_geo_anomalies, event)
    IN  AndThen(s6, check_role_escalation, event)

\* instrument(event) for an event whose timestamp is set: the globals it
\* leaves, with ok false when one of the checks raised (the checks after
\* that one did not run).
instrument(st, event) ==
    LET s0 == StoreEvent(st, event)
        s1 == AndThen(s0, check_failed_logins, event)
        s2 == AndThen(s1, check_toggle_spam, event)
        s3 == AndThen(s2, check_power_anomalies, event)
        s4 == AndThen(s3, check_unusual_time_activity, event)
        s5 == AndThen(s4, check_geo_anomalies, event)
        s6 == AndThen(s5, check_device_impersonation, event)
    IN  AndThen(s6, check_role_escalation, event)

\* A handler's run of instrument() calls in program order: the first one that
\* raises ends the handler.
RECURSIVE InstrumentAll(_, _)
InstrumentAll(st, events) ==
    IF events = <<>> \/ ~st.ok THEN st
    ELSE InstrumentAll(instrument(st, Head(events)), Tail(events))

(***************************************************************************)
(* The events of the two simulation handlers, in program order.            *)
(***************************************************************************)
normal_user == "user_normal_123"

attacker_user == "user_attacker_456"

normal_profile ==
    [usual_locations |-> <<LocNY, LocNY2, LocNY3>>,
     authorized_devices |-> <<"192.168.1.100", "smart_meter_1">>]

attacker_profile ==
    [usual_locations |-> <<LocNY>>,
     authorized_devices |-> <<"192.168.1.200">>]

\* "on" if i % 2 == 0 else "off"
OnOff(i) == IF i % 2 = 0 THEN "on" ELSE "off"

LoginContext(success, location) ==
    [EmptyContext EXCEPT !.success = Bool(success), !.location = Str(location)]

DeviceContext(device, state) ==
    [EmptyContext EXCEPT !.device = Str(device), !.state = Str(state)]

PowerContext(value, avg) ==
    [EmptyContext EXCEPT !.value = Num(value), !.historical_avg = Num(avg)]

NormalActivityEvents(now) ==
    <<Event("login_attempt", "USER", normal_user, "192.168.1.100", now - 600,
            LoginContext(TRUE, LocNY))>>
    \o [i \in 1..2 |->
          Event("toggle_device", "USER", normal_user, "192.168.1.100",
                now - (540 + (30 - (i - 1))), DeviceContext("light_1", OnOff(i - 1)))]
    \o <<Event("power_reading", "SYSTEM", "sensor_1", "smart_meter_1", now - 480,
               PowerContext(241, 230))>>
    \o <<Event("login_attempt", "USER", normal_user, "192.168.1.100", now,
               LoginContext(TRUE, normal_profile.usual_locations[1])),
         Event("login_attempt", "USER", normal_user, "192.168.1.101", now,
               LoginContext(TRUE, normal_profile.usual_locations[2])),
         Event("login_attempt", "USER", normal_user, "192.168.1.102", now,
               LoginContext(TRUE, normal_profile.usual_locations[3]))>>
    \o <<Event("login_attempt", "USER", "user_normal_567", "192.168.5.100", now,
               LoginContext(TRUE, LocCT)),
         Event("login_attempt", "USER", "user_normal_567", "192.168.5.100", now + 120,
               LoginContext(TRUE, LocON))>>

AttackActivityEvents(now) ==
    [i \in 1..6 |->
       Event("login_attempt", "USER", attacker_user, "192.168.1.666",
             now - (50 - (i - 1) * 10),
             [EmptyContext EXCEPT !.success = Bool(FALSE)])]
    \o [i \in 1..15 |->
          Event("toggle_device", "USER", attacker_user, "192.168.1.666",
                now - (25 - (i - 1)), DeviceContext("light_1", OnOff(i - 1)))]
    \o <<Event("power_reading", "SYSTEM", "sensor_2", "hacked_meter_1", now,
               PowerContext(600, 240)),
         Event("power_reading", "SYSTEM", "sensor_2", "hacked_meter_1", now,
               PowerContext(0, 240)),
         Event("toggle_device", "USER", attacker_user, "192.168.1.200",
               ReplaceHour(now, 2), DeviceContext("thermostat", "high")),
         Event("change_role", "USER", attacker_user, "192.168.1.666", now,
               [EmptyContext EXCEPT !.new_role = Str("ADMIN")]),
         Event("login_attempt", "USER", attacker_user, "192.168.5.100", now,
               LoginContext(TRUE, LocCT)),
         Event("login_attempt", "USER", attacker_user, "192.168.5.100", now + 10,
               LoginContext(TRUE, LocON)),
         Event("toggle_device", "USER", normal_user, "192.168.1.666", now,
               DeviceContext("light_1", "off"))>>

(***************************************************************************)
(* The state machine.                                                      *)
(***************************************************************************)
\* 12:00:00 of day 0
Noon == 12 * 3600

\* The values datetime.now() takes in the model.
\* 18:00:05
Evening == 18 * 3600 + 5

Nows == {Noon, Evening}

\* An HTTP response: the status code, the "status" of the body (or the list
\* a log endpoint returns).
Response(code, status, body) == [code |-> code, status |-> status, body |-> body]

\* The requests that can be in flight together.
Requests == 1..MaxRequests

\* A request slot with no request in it.  pc is the statement the task runs
\* next; at is the length of the store right after the task's append and
\* seen the globals the append was made on (both kept for the properties,
\* read by no statement).
IdleTask ==
    [pc |-> "idle",
     event |-> Event("", "", "", "", NoTimestamp, EmptyContext),
     at |-> 0,
     seen |-> Globals(<<>>, <<>>, [u \in UserIds |-> NoProfile])]

Init ==
    /\ event_history = <<>>
    /\ attack_logs = <<>>
    /\ user_profiles = [u \in UserIds |-> NoProfile]
    /\ response = Response(0, "", <<>>)
    /\ clock = Noon
    /\ ingests = 0
    /\ sims = 0
    /\ tasks = [r \in Requests |-> IdleTask]
    /\ running = 0

\* What the handler leaves in the three globals.
Commit(st) ==
    /\ event_history' = st.h
    /\ attack_logs' = st.a
    /\ user_profiles' = st.p

\* datetime.now(): the wall clock does not run backwards.
ReadsClock(now) == now \in Nows /\ now >= clock

\* POST /instrument
api_instrument(event) ==
    /\ ingests < MaxIngest
    /\ Len(event_history) < MaxHistory
    /\ \E now \in (IF event.timestamp = NoTimestamp THEN Nows ELSE {clock}) :
         /\ ReadsClock(now)
         /\ LET stamped == IF event.timestamp = NoTimestamp
                           THEN [event EXCEPT !.timestamp = now]
                           ELSE event
                st == instrument(Globals(event_history, attack_logs, user_profiles),
                                 stamped)
            IN  /\ Commit(st)
                /\ response' = IF st.ok
                               THEN Response(200, "success", <<EventLog(stamped)>>)
                               ELSE Response(400, "error", <<>>)
         /\ clock' = now
    /\ ingests' = ingests + 1
    /\ UNCHANGED <<sims, tasks, running>>

\* POST /simulate/normal-activity
simulate_normal_activity ==
    /\ sims < MaxSims
    /\ Len(event_history) + Len(NormalActivityEvents(Noon)) <= MaxHistory
    /\ \E now \in Nows :
         /\ ReadsClock(now)
         /\ LET seeded == [user_profiles EXCEPT ![normal_user] = normal_profile]
                st == InstrumentAll(Globals(event_history, attack_logs, seeded),
                                    NormalActivityEvents(now))
            IN  /\ Commit(st)
                /\ response' = IF st.ok
                               THEN Response(200, "simulated normal activity", <<>>)
                               ELSE Response(500, "error", <<>>)
         /\ clock' = now
    /\ sims' = sims + 1
    /\ UNCHANGED <<ingests, tasks, running>>

\* POST /simulate/attack-activity
simulate_attack_activity ==
    /\ sims < MaxSims
    /\ Len(event_history) + Len(AttackActivityEvents(Noon)) <= MaxHistory
    /\ \E now \in Nows :
         /\ ReadsClock(now)
         /\ LET seeded == [user_profiles EXCEPT ![attacker_user] = attacker_profile]
                st == InstrumentAll(Globals(event_history, attack_logs, seeded),
                                    AttackActivityEvents(now))
            IN  /\ Commit(st)
                /\ response' = IF st.ok
                               THEN Response(200, "simulated attack activity", <<>>)
                               ELSE Response(500, "error", <<>>)
         /\ clock' = now
    /\ sims' = sims + 1
    /\ UNCHANGED <<ingests, tasks, running>>

\* event_history[-limit:], attack_logs[-limit:]
TailSlice(list, limit) ==
    LET n == Len(list)
        start == IF -limit < 0
                 THEN (IF n - limit < 0 THEN 0 ELSE n - limit)
                 ELSE (IF -limit > n THEN n ELSE -limit)
    IN  SubSeq(list, start + 1, n)

\* GET /event-logs
get_event_logs(limit) ==
    /\ response' = Response(200, "event-logs", TailSlice(event_history, limit))
    /\ UNCHANGED <<event_history, attack_logs, user_profiles, clock, ingests, sims,
                   tasks, running>>

\* GET /attack-logs
get_attack_logs(limit) ==
    /\ response' = Response(200, "attack-logs", TailSlice(attack_logs, limit))
    /\ UNCHANGED <<event_history, attack_logs, user_profiles, clock, ingests, sims,
                   tasks, running>>

\* Mutant: user_profiles is missing from the global statement, so the
\* assignment binds a local and the profiles survive.
reset_logs_keeps_profiles ==
    /\ event_history' = <<>>
    /\ attack_logs' = <<>>
    /\ response' = Response(200, "logs reset", <<>>)
    /\ ingests' = 0
    /\ sims' = 0
    /\ UNCHANGED <<user_profiles, clock, tasks, running>>

\* POST /reset-logs
reset_logs ==
    /\ event_history' = <<>>
    /\ attack_logs' = <<>>
    /\ user_profiles' = [u \in UserIds |-> NoProfile]
    /\ response' = Response(200, "logs reset", <<>>)
    /\ ingests' = 0
    /\ sims' = 0
    /\ UNCHANGED <<clock, tasks, running>>

(***************************************************************************)
(* What a step appends.                                                    *)
(***************************************************************************)
\* The step stored at least one event (an ingestion or a simulation).
Stores == Len(event_history') > Len(event_history)

\* The attack records the step appended.
NewAttacks == SubSeq(attack_logs', Len(attack_logs) + 1, Len(attack_logs'))

\* The event fields an attack record carries.
EventOf(attack) ==
    [timestamp |-> attack.timestamp, event_name |-> attack.event_name,
     user_id |-> attack.user_id, source_id |-> attack.source_id,
     user_role |-> attack.user_role, context |-> attack.context]

\* The events of the records of one detection type the step appended, in
\* the order of the log.
NewlyFlagged(detection_type) ==
    LET OfType(a) == a.detection_type = detection_type
        hits == SelectSeq(NewAttacks, OfType)
    IN  [k \in 1..Len(hits) |-> EventOf(hits[k])]

\* The events the step stored for which Fires holds of the event and the
\* store as it was right after the event was appended, in storage order.
NewlyDue(Fires(_, _)) ==
    LET n == Len(event_history)
        Due(i) == Fires(event_history'[i], SubSeq(event_history', 1, i))
        idx == SelectSeq([k \in 1..(Len(event_history') - n) |-> n + k], Due)
    IN  [k \in 1..Len(idx) |-> event_history'[idx[k]]]

(***************************************************************************)
(* Login traffic: the requests of the failed_login rule.                   *)
(***************************************************************************)
FailedLogin(u, t) ==
    Event("login_attempt", "USER", u, "10.0.0.7", t,
          [EmptyContext EXCEPT !.success = Bool(FALSE)])

LoginEvents ==
    {FailedLogin(attacker_user, t) :
        t \in {Noon - 100, Noon + 30, Noon + 31, Noon + 81, NoTimestamp}}
    \cup {FailedLogin("user_normal_567", Noon + 30),
          Event("login_attempt", "USER", attacker_user, "10.0.0.7", Noon + 30,
                EmptyContext),
          Event("login_attempt", "USER", attacker_user, "10.0.0.7", Noon + 30,
                [EmptyContext EXCEPT !.success = Bool(TRUE)]),
          Event("change_role", "ADMIN", attacker_user, "10.0.0.7", Noon + 30,
                [EmptyContext EXCEPT !.success = Bool(FALSE)])}

NextLogin ==
    \/ \E event \in LoginEvents : api_instrument(event)
    \/ simulate_attack_activity
    \/ reset_logs

SpecLogin == Init /\ [][NextLogin]_vars

\* A failed login: a login_attempt whose context holds success = false.
IsFailedLogin(e) ==
    e.event_name = "login_attempt" /\ e.context.success = Bool(FALSE)

\* The stored failed logins of e's user with timestamp >= e.timestamp - 1 minute.
FailuresSince(e, stored) ==
    {i \in 1..Len(stored) :
        /\ IsFailedLogin(stored[i])
        /\ stored[i].user_id = e.user_id
        /\ stored[i].timestamp >= e.timestamp - 60}

FailedLoginDue(e, stored) ==
    IsFailedLogin(e) /\ Cardinality(FailuresSince(e, stored)) >= 5

\* C1: every step that stores events appends one failed_login record for
\* each stored event that is a failed login_attempt (success present and
\* false) with at least 5 stored failed logins of its user, itself included,
\* at timestamps >= its timestamp - 1 minute, and no failed_login record for
\* any other event; a login_attempt with no success key neither fires nor
\* is counted.
C1_FailedLoginRule ==
    [][Stores => NewlyFlagged("failed_login") = NewlyDue(FailedLoginDue)]_vars

\* C1 witness: an ingested failed login was flagged, and a stored login
\* with no success key was not.
C1_Witness ==
    /\ \E i \in 1..Len(attack_logs) :
         /\ attack_logs[i].detection_type = "failed_login"
         /\ attack_logs[i].source_id = "10.0.0.7"
    /\ \E i \in 1..Len(event_history) :
         /\ event_history[i].event_name = "login_attempt"
         /\ ~HasKey(event_history[i].context.success)
         /\ \A j \in 1..Len(attack_logs) :
              EventOf(attack_logs[j]) # event_history[i]

\* The stored failed logins of e's user inside the 1-minute window that ends
\* at e's timestamp.
FailuresInWindow(e, stored) ==
    {i \in FailuresSince(e, stored) : stored[i].timestamp <= e.timestamp}

FailedLoginInWindow(e, stored) ==
    IsFailedLogin(e) /\ Cardinality(FailuresInWindow(e, stored)) >= 5

\* C2: a failed_login record is appended only for an event with at least 5
\* failed logins of its user (itself included) at timestamps inside
\* [e.timestamp - 1 minute, e.timestamp], whatever order the timestamps
\* arrive in.
C2_FailedLoginWindow ==
    [][Stores =>
         \A k \in 1..Len(NewlyFlagged("failed_login")) :
            \E i \in (Len(event_history) + 1)..Len(event_history') :
               /\ event_history'[i] = NewlyFlagged("failed_login")[k]
               /\ FailedLoginInWindow(event_history'[i],
                                      SubSeq(event_history', 1, i))]_vars

(***************************************************************************)
(* Device traffic: the requests of the toggle_spam rule.                   *)
(***************************************************************************)
Command(name, role, u, t) ==
    Event(name, role, u, "10.0.0.7", t, DeviceContext("light_1", "on"))

ToggleEvents ==
    {Command("toggle_device", "USER", attacker_user, t) :
        t \in {Noon + 11, Noon + 12, NoTimestamp}}
    \cup {Command("adjust_device", "ADMIN", attacker_user, Noon + 11),
          Command("adjust_device", "MANAGER", attacker_user, 28799),
          Command("toggle_device", "ADMIN", attacker_user, 28800),
          Command("toggle_device", "ADMIN", attacker_user, 64799),
          Command("toggle_device", "ADMIN", attacker_user, 64800),
          Command("set_power_level", "USER", attacker_user, Noon + 11),
          Command("toggle_device", "USER", "user_normal_567", Noon + 11)}

NextToggle ==
    \/ \E event \in ToggleEvents : api_instrument(event)
    \/ simulate_attack_activity
    \/ reset_logs

SpecToggle == Init /\ [][NextToggle]_vars

\* The hour of day of a timestamp.
HourOfDay(t) == (t % 86400) \div 3600

IsToggleCommand(e) == e.event_name = "toggle_device" \/ e.event_name = "adjust_device"

\* A privileged role inside [8, 18).
Exempt(e) ==
    /\ e.user_role = "ADMIN" \/ e.user_role = "MANAGER"
    /\ HourOfDay(e.timestamp) >= 8
    /\ HourOfDay(e.timestamp) < 18

TogglesSince(e, stored) ==
    {i \in 1..Len(stored) :
        /\ IsToggleCommand(stored[i])
        /\ stored[i].user_id = e.user_id
        /\ stored[i].timestamp >= e.timestamp - 30}

ToggleSpamDue(e, stored) ==
    /\ IsToggleCommand(e)
    /\ ~Exempt(e)
    /\ Cardinality(TogglesSince(e, stored)) >= 10

\* C3: every step that stores events appends one toggle_spam record for each
\* stored event that is a toggle_device or adjust_device, is not exempt
\* (ADMIN or MANAGER inside [8, 18)), and has at least 10 stored
\* toggle/adjust events of its user, itself included, at timestamps
\* >= its timestamp - 30 seconds; and no toggle_spam record for any other
\* event.
C3_ToggleSpamRule ==
    [][Stores => NewlyFlagged("toggle_spam") = NewlyDue(ToggleSpamDue)]_vars

\* C3 witness: an ingested 10th toggle inside 30 seconds was flagged, an
\* ingested 9th was not, and an exempt command with 10 or more toggles
\* behind it was not.
C3_Witness ==
    /\ \E i \in 1..Len(attack_logs) :
         /\ attack_logs[i].detection_type = "toggle_spam"
         /\ attack_logs[i].source_id = "10.0.0.7"
         /\ attack_logs[i].message.nums[1] = 10
    /\ \E i \in 1..Len(event_history) :
         /\ event_history[i].source_id = "10.0.0.7"
         /\ event_history[i].user_role = "ADMIN"
         /\ Exempt(event_history[i])
         /\ Cardinality(TogglesSince(event_history[i], SubSeq(event_history, 1, i))) >= 10
         /\ \A j \in 1..Len(attack_logs) :
              attack_logs[j].detection_type = "toggle_spam"
                 => EventOf(attack_logs[j]) # event_history[i]

(***************************************************************************)
(* Located logins: the requests of the geo_anomaly rule.                   *)
(***************************************************************************)
Login(u, success, location, t) ==
    Event("login_attempt", "USER", u, "10.0.0.7", t, LoginContext(success, location))

GeoEvents ==
    {Login(attacker_user, TRUE, LocNY, Noon + 30),
     Login(attacker_user, TRUE, LocCT, Noon + 65),
     Login(attacker_user, TRUE, LocON, Noon + 70),
     Login(attacker_user, TRUE, LocOver, Noon - 100),
     Login(attacker_user, TRUE, LocNY, Noon + 200),
     Login(attacker_user, TRUE, LocNear, NoTimestamp),
     Login(attacker_user, FALSE, LocON, Noon + 30),
     Login("user_normal_567", TRUE, LocNY, Noon + 30),
     Login("user_normal_567", TRUE, LocOver, Noon + 31),
     Login("user_normal_567", TRUE, LocNear, Noon + 31),
     Event("login_attempt", "USER", attacker_user, "10.0.0.7", Noon + 30,
           [EmptyContext EXCEPT !.success = Bool(TRUE)])}

NextGeo ==
    \/ \E event \in GeoEvents : api_instrument(event)
    \/ simulate_normal_activity
    \/ simulate_attack_activity
    \/ reset_logs

SpecGeo == Init /\ [][NextGeo]_vars

\* The step is one ingestion: it stored exactly one event.
StoresOne == Len(event_history') = Len(event_history) + 1

\* The event an ingestion step stored.
Ingested == event_history'[Len(event_history')]

\* A successful login_attempt that carries a location.
IsLocatedLogin(e) ==
    /\ e.event_name = "login_attempt"
    /\ e.context.success = Bool(TRUE)
    /\ e.context.location.tag = "str"
    /\ e.context.location.s # ""

\* The user of e had a recorded usual location before the step.
HadUsualLocation(e) == Len(user_profiles[e.user_id].usual_locations) > 0

\* The step appended a geo_anomaly record for the ingested event.
GeoFlagged == NewlyFlagged("geo_anomaly") = <<Ingested>>

\* The previously stored located logins of e's user, more than 500 m from
\* e's location, with timestamp at or after e.timestamp - 1 minute.
FarLoginsSince(e, prior) ==
    {i \in 1..Len(prior) :
        /\ IsLocatedLogin(prior[i])
        /\ prior[i].user_id = e.user_id
        /\ prior[i].timestamp >= e.timestamp - 60
        /\ DistanceDm(prior[i].context.location.s, e.context.location.s) > 5000}

\* ... and inside the trailing window, at or before e.timestamp.
FarLoginsInWindow(e, prior) ==
    {i \in FarLoginsSince(e, prior) : prior[i].timestamp <= e.timestamp}

\* C4: for a user who has a usual location, the ingestion of a successful
\* located login appends a geo_anomaly record iff some previously stored
\* successful located login of that user, stamped between e.timestamp - 1
\* minute and e.timestamp, is more than 500 m from the new location; any
\* other ingestion appends none.
C4_GeoAnomalyWindow ==
    [][StoresOne =>
         IF IsLocatedLogin(Ingested) /\ HadUsualLocation(Ingested)
         THEN GeoFlagged <=> FarLoginsInWindow(Ingested, event_history) # {}
         ELSE NewlyFlagged("geo_anomaly") = <<>>]_vars

\* The successful located logins of a user in the store.
LocatedLoginsOf(u) ==
    {i \in 1..Len(event_history) :
        IsLocatedLogin(event_history[i]) /\ event_history[i].user_id = u}

\* C5: the ingestion of a successful located login of a user with no usual
\* location sets the user's usual_locations to exactly that location and
\* appends no geo_anomaly record; and every user with a geo_anomaly record
\* in the log has at least two successful located logins in the store.
C5_GeoBootstrap ==
    /\ [][StoresOne /\ IsLocatedLogin(Ingested) /\ ~HadUsualLocation(Ingested)
            => /\ user_profiles'[Ingested.user_id].usual_locations
                     = <<Ingested.context.location.s>>
               /\ NewlyFlagged("geo_anomaly") = <<>>]_vars
    /\ [](\A j \in 1..Len(attack_logs) :
            attack_logs[j].detection_type = "geo_anomaly"
               => Cardinality(LocatedLoginsOf(attack_logs[j].user_id)) >= 2)

\* C5 witness: a user's first located login was ingested while other events
\* were stored, seeded the profile and was not flagged; a later login of the
\* same user was.
C5_Witness ==
    /\ user_profiles["user_normal_567"].usual_locations = <<LocNY>>
    /\ \E i \in 1..Len(event_history) : event_history[i].user_id = attacker_user
    /\ \E j \in 1..Len(attack_logs) :
         /\ attack_logs[j].detection_type = "geo_anomaly"
         /\ attack_logs[j].user_id = "user_normal_567"
         /\ attack_logs[j].context.location = Str(LocOver)
    /\ \A j \in 1..Len(attack_logs) :
         attack_logs[j].detection_type = "geo_anomaly"
            => attack_logs[j].context.location # Str(LocNY)

(***************************************************************************)
(* Malformed context values.                                               *)
(***************************************************************************)
Reading(value, avg, t) ==
    Event("power_reading", "SYSTEM", "sensor_1", "meter_7", t,
          [EmptyContext EXCEPT !.value = value, !.historical_avg = avg])

MalformedEvents ==
    {Reading(Str("abc"), Num(200), Noon),
     Reading(Num(20), Str("n/a"), Noon),
     Reading(Num(600), Num(200), Noon),
     Login(attacker_user, TRUE, LocBad, Noon + 30),
     Login(attacker_user, TRUE, LocNY, Noon + 40),
     Login("user_normal_567", TRUE, LocBad, NoTimestamp),
     Login("user_normal_567", TRUE, LocON, Noon + 40)}

NextMalformed ==
    \/ \E event \in MalformedEvents : api_instrument(event)
    \/ simulate_attack_activity
    \/ reset_logs

SpecMalformed == Init /\ [][NextMalformed]_vars

\* C6: no ingestion ends in an error: whatever the context of the event
\* holds (an unparseable location, a non-numeric value or historical_avg),
\* POST /instrument answers with the stored record.
C6_IngestCompletes == response.code # 400

(***************************************************************************)
(* Mixed traffic through every handler that changes the globals.           *)
(***************************************************************************)
MixedEvents ==
    {FailedLogin(attacker_user, Noon + 30),
     Command("toggle_device", "USER", attacker_user, 7200),
     Command("adjust_device", "ADMIN", attacker_user, Noon + 11),
     Reading(Num(600), Num(200), Noon),
     Reading(Str("abc"), Num(200), Noon),
     Event("change_role", "USER", attacker_user, "10.0.0.7", Noon,
           [EmptyContext EXCEPT !.new_role = Str("ADMIN")]),
     Login(attacker_user, TRUE, LocBad, Noon + 30),
     Login(attacker_user, TRUE, LocON, NoTimestamp),
     Login("user_normal_567", TRUE, LocNY, Noon + 30),
     Login("user_normal_567", TRUE, LocOver, Noon + 31)}

Next ==
    \/ \E event \in MixedEvents : api_instrument(event)
    \/ simulate_normal_activity
    \/ simulate_attack_activity
    \/ reset_logs

Spec == Init /\ [][Next]_vars

\* C7: in every reachable state each record of the attack log carries the
\* timestamp, event_name, user_id, source_id, user_role and context of an
\* event that is in the event store.
C7_AttacksReferenceStoredEvents ==
    \A j \in 1..Len(attack_logs) :
       \E i \in 1..Len(event_history) : event_history[i] = EventOf(attack_logs[j])

\* C7 witness: an ingestion that was answered with an error left a record of
\* an earlier rule in the log, next to records of other events.
C7_Witness ==
    /\ response.code = 400
    /\ Len(attack_logs) >= 2
    /\ Len(event_history) >= 2
    /\ EventOf(attack_logs[Len(attack_logs)]) # EventOf(attack_logs[1])

(***************************************************************************)
(* The log endpoints.                                                      *)
(***************************************************************************)
\* The limit query parameter (default 100).
Limits == {-1, 0, 1, 2, 100}

ListedEvents ==
    {Command("toggle_device", "USER", attacker_user, 7200),
     FailedLogin(attacker_user, Noon + 30),
     Reading(Num(600), Num(200), Noon),
     Reading(Num(0), Num(200), NoTimestamp),
     Event("change_role", "USER", attacker_user, "10.0.0.7", Noon,
           [EmptyContext EXCEPT !.new_role = Str("MANAGER")])}

NextListing ==
    \/ \E event \in ListedEvents : api_instrument(event)
    \/ \E limit \in Limits : get_event_logs(limit)
    \/ \E limit \in Limits : get_attack_logs(limit)
    \/ reset_logs

SpecListing == Init /\ [][NextListing]_vars

\* list is the last min(limit, Len(log)) entries of log, in log order.
IsTail(list, log, limit) ==
    LET k == IF limit < Len(log) THEN limit ELSE Len(log)
    IN  /\ Len(list) = k
        /\ \A i \in 1..k : list[i] = log[Len(log) - k + i]

\* C8: for every limit >= 0, GET /event-logs and GET /attack-logs return the
\* last min(limit, length) entries of their log, most recent last.
C8_RecentLogs ==
    [][\A limit \in {l \in Limits : l >= 0} :
          /\ get_event_logs(limit) => IsTail(response'.body, event_history, limit)
          /\ get_attack_logs(limit) => IsTail(response'.body, attack_logs, limit)]_vars

(***************************************************************************)
(* Ingestion and reset only: runs that start from the cleared state.       *)
(***************************************************************************)
ReplayedEvents ==
    {Login(attacker_user, TRUE, LocNY, Noon + 30),
     Login(attacker_user, TRUE, LocON, Noon + 31),
     Login(attacker_user, TRUE, LocCT, NoTimestamp),
     Login(attacker_user, TRUE, LocBad, Noon + 32),
     Login("user_normal_567", TRUE, LocON, Noon + 31),
     Command("toggle_device", "USER", attacker_user, 7200),
     Command("toggle_device", "USER", attacker_user, NoTimestamp),
     Reading(Num(600), Num(200), Noon)}

NextReplay ==
    \/ \E event \in ReplayedEvents : api_instrument(event)
    \/ reset_logs

SpecReplay == Init /\ [][NextReplay]_vars

\* The globals after ingesting the events of a sequence one request after
\* the other, from the given globals (a request that ends in an error
\* leaves what it did, and the next request runs).
RECURSIVE Reingest(_, _)
Reingest(st, events) ==
    IF events = <<>> THEN st
    ELSE Reingest([instrument(st, Head(events)) EXCEPT !.ok = TRUE], Tail(events))

Cleared == Globals(<<>>, <<>>, [u \in UserIds |-> NoProfile])

\* C9: a reset leaves the event store, the attack log and the profiles
\* empty, and at any time the attack log (and the profiles) are the ones
\* that ingesting the stored sequence of events from the cleared state
\* produces: a run after a reset yields what the same run yields the first
\* time.
C9_ResetReplay ==
    /\ response.status = "logs reset"
          => /\ event_history = <<>>
             /\ attack_logs = <<>>
             /\ \A u \in UserIds : user_profiles[u] = NoProfile
    /\ attack_logs = Reingest(Cleared, event_history).a
    /\ user_profiles = Reingest(Cleared, event_history).p

\* C9 witness: the clock shows an ingestion stamped 18:00:05 that is no
\* longer stored, so a reset followed it, and the run after the reset has
\* flagged a login against the location seeded in that run.
C9_Witness ==
    /\ clock = Evening
    /\ \A i \in 1..Len(event_history) : event_history[i].timestamp # Evening
    /\ \E j \in 1..Len(attack_logs) : attack_logs[j].detection_type = "geo_anomaly"
    /\ user_profiles[attacker_user].usual_locations # <<LocCT>>

(***************************************************************************)
(* Power readings: the requests of the power_anomaly rule.  Values and     *)
(* averages are integers (Num holds half units).                           *)
(***************************************************************************)
Whole(k) == Num(2 * k)

PowerEvents ==
    {Reading(Whole(v), Whole(100), Noon) : v \in {0, 9, 10, 11, 150, 151}}
    \cup {Reading(Whole(0), Whole(-10), Noon),
          Reading(Whole(1), Whole(-10), NoTimestamp),
          Reading(Whole(0), Absent, Noon),
          Reading(Absent, Whole(100), Noon),
          Event("set_power_level", "SYSTEM", "sensor_1", "meter_7", Noon,
                PowerContext(0, 200))}

NextPower ==
    \/ \E event \in PowerEvents : api_instrument(event)
    \/ simulate_normal_activity
    \/ simulate_attack_activity
    \/ reset_logs

SpecPower == Init /\ [][NextPower]_vars

\* The message of the power_anomaly record an event is due, "" for none:
\* non-positive first, then spike (value > 1.5 x avg), then drop
\* (value < 0.10 x avg), both strict.
PowerVerdict(e) ==
    LET v == e.context.value.n
        a == e.context.historical_avg.n
    IN  IF e.event_name # "power_reading"
           \/ e.context.value.tag # "num" \/ e.context.historical_avg.tag # "num"
        THEN ""
        ELSE IF v <= 0 THEN "Zero or negative power reading"
        ELSE IF 2 * v > 3 * a THEN "Power spike detected ({value} > {upper_threshold})"
        ELSE IF 10 * v < a THEN "Power drop detected ({value} < {lower_threshold})"
        ELSE ""

PowerDue(e, stored) == PowerVerdict(e) # ""

\* The power_anomaly records the step appended.
NewPowerAnomalies ==
    LET OfType(a) == a.detection_type = "power_anomaly"
    IN  SelectSeq(NewAttacks, OfType)

\* C10: every step that stores events appends, for each stored
\* power_reading with value and historical_avg, exactly one power_anomaly
\* record with the non-positive message if value <= 0, else one spike
\* record if value > 1.5 x avg, else one drop record if value < 0.10 x avg,
\* else none; and none for an event with a missing value or average or
\* another event_name.
C10_PowerAnomalyRule ==
    [][Stores =>
         /\ NewlyFlagged("power_anomaly") = NewlyDue(PowerDue)
         /\ \A k \in 1..Len(NewPowerAnomalies) :
               NewPowerAnomalies[k].message.text
                  = PowerVerdict(EventOf(NewPowerAnomalies[k]))]_vars

\* C10 witness: the log holds a non-positive record for a reading that is
\* also above 1.5 x avg, a spike record and a drop record, and the store
\* holds a reading at the drop boundary that was not flagged.
C10_Witness ==
    /\ \E j \in 1..Len(attack_logs) :
         /\ attack_logs[j].message.text = "Zero or negative power reading"
         /\ attack_logs[j].context.historical_avg.n < 0
    /\ \E j \in 1..Len(attack_logs) :
         attack_logs[j].message.text = "Power spike detected ({value} > {upper_threshold})"
    /\ \E i \in 1..Len(event_history) :
         /\ event_history[i].context.value = Whole(10)
         /\ event_history[i].context.historical_avg = Whole(100)
         /\ \A j \in 1..Len(attack_logs) : EventOf(attack_logs[j]) # event_history[i]

(***************************************************************************)
(* Device commands from authorized and unauthorized sources: the requests  *)
(* of the device_impersonation rule.                                       *)
(***************************************************************************)
CommandFrom(name, u, source) ==
    Event(name, "USER", u, source, Noon + 11, DeviceContext("light_1", "on"))

DeviceEvents ==
    {CommandFrom("adjust_device", normal_user, "192.168.1.100"),
     CommandFrom("adjust_device", normal_user, "192.168.1.200"),
     CommandFrom("adjust_device", attacker_user, "192.168.1.200"),
     CommandFrom("toggle_device", attacker_user, "10.0.0.7"),
     CommandFrom("adjust_device", "user_normal_567", "192.168.1.100"),
     CommandFrom("set_power_level", normal_user, "10.0.0.7"),
     Login("user_normal_567", TRUE, LocNY, Noon + 30),
     [CommandFrom("toggle_device", "user_normal_567", "10.0.0.7")
         EXCEPT !.timestamp = NoTimestamp]}

NextDevice ==
    \/ \E event \in DeviceEvents : api_instrument(event)
    \/ simulate_normal_activity
    \/ simulate_attack_activity
    \/ reset_logs

SpecDevice == Init /\ [][NextDevice]_vars

\* The authorized devices of a user while the step's events are evaluated:
\* no ingestion changes them, and a simulation sets them before its events.
AuthorizedDevicesOf(u) ==
    {user_profiles'[u].authorized_devices[k] :
        k \in 1..Len(user_profiles'[u].authorized_devices)}

DeviceImpersonationDue(e, stored) ==
    /\ e.event_name = "toggle_device" \/ e.event_name = "adjust_device"
    /\ e.source_id \notin AuthorizedDevicesOf(e.user_id)

\* C11: every step that stores events appends one device_impersonation
\* record for each stored toggle_device or adjust_device whose source_id is
\* not among the authorized devices of its user (none for a user without a
\* profile), and no device_impersonation record for any other event.
C11_DeviceImpersonationRule ==
    [][Stores => NewlyFlagged("device_impersonation")
                    = NewlyDue(DeviceImpersonationDue)]_vars

\* C11 witness: an ingested command of a user with no profile was flagged,
\* and an ingested command from an authorized device is stored with no
\* record.
C11_Witness ==
    /\ \E j \in 1..Len(attack_logs) :
         /\ attack_logs[j].detection_type = "device_impersonation"
         /\ attack_logs[j].user_id = "user_normal_567"
         /\ attack_logs[j].event_name = "adjust_device"
    /\ \E i \in 1..Len(event_history) :
         /\ event_history[i] = CommandFrom("adjust_device", normal_user, "192.168.1.100")
         /\ InList("192.168.1.100", user_profiles[normal_user].authorized_devices)
         /\ \A j \in 1..Len(attack_logs) : EventOf(attack_logs[j]) # event_history[i]

(***************************************************************************)
(* Commands around the edges of business hours: the requests of the        *)
(* unusual_time rule.                                                      *)
(***************************************************************************)
\* 07:59:59, 08:00:00, 17:59:59 and 18:00:00 of day 0, 02:00:00 of day 1
EdgeTimes == {8 * 3600 - 1, 8 * 3600, 18 * 3600 - 1, 18 * 3600, 26 * 3600}

HoursEvents ==
    {Command("toggle_device", "USER", attacker_user, t) : t \in EdgeTimes}
    \cup {Command("adjust_device", "ADMIN", attacker_user, 18 * 3600),
          Command("toggle_device", "MANAGER", attacker_user, 8 * 3600 - 1),
          Command("set_power_level", "USER", attacker_user, NoTimestamp),
          Command("power_reading", "USER", attacker_user, 26 * 3600)}

NextHours ==
    \/ \E event \in HoursEvents : api_instrument(event)
    \/ simulate_normal_activity
    \/ simulate_attack_activity
    \/ reset_logs

SpecHours == Init /\ [][NextHours]_vars

UnusualTimeDue(e, stored) ==
    /\ e.user_role # "ADMIN" /\ e.user_role # "MANAGER"
    /\ e.event_name \in {"toggle_device", "adjust_device", "set_power_level"}
    /\ HourOfDay(e.timestamp) < 8 \/ HourOfDay(e.timestamp) >= 18

\* C12: every step that stores events appends one unusual_time record for
\* each stored toggle_device, adjust_device or set_power_level whose role is
\* neither ADMIN nor MANAGER and whose timestamp has an hour of day outside
\* [8, 18), and no unusual_time record for any other event (none for ADMIN
\* or MANAGER at any hour).
C12_UnusualTimeRule ==
    [][Stores => NewlyFlagged("unusual_time") = NewlyDue(UnusualTimeDue)]_vars

\* C12 witness: an ingested command stamped 18:00:00 was flagged and an
\* ingested command of the same user stamped 17:59:59 is stored with no
\* unusual_time record.
C12_Witness ==
    /\ \E j \in 1..Len(attack_logs) :
         /\ attack_logs[j].detection_type = "unusual_time"
         /\ attack_logs[j].timestamp = 18 * 3600
         /\ attack_logs[j].user_role = "USER"
    /\ \E i \in 1..Len(event_history) :
         /\ event_history[i] = Command("toggle_device", "USER", attacker_user, 18 * 3600 - 1)
         /\ \A j \in 1..Len(attack_logs) :
              attack_logs[j].detection_type = "unusual_time"
                 => EventOf(attack_logs[j]) # event_history[i]

(***************************************************************************)
(* Role changes: the requests of the role_escalation rule.                 *)
(***************************************************************************)
RoleChange(name, role, new_role, t) ==
    Event(name, role, attacker_user, "10.0.0.7", t,
          [EmptyContext EXCEPT !.new_role = new_role])

RoleEvents ==
    {RoleChange("change_role", role, Str("MANAGER"), Noon) :
        role \in {"USER", "ADMIN", "MANAGER"}}
    \cup {RoleChange("change_role", "USER", Str("ADMIN"), Noon),
          RoleChange("change_role", "USER", Str("USER"), Noon),
          RoleChange("change_role", "MANAGER", Str("ADMIN"), Noon),
          RoleChange("change_role", "GUEST", Str("MANAGER"), NoTimestamp),
          RoleChange("change_role", "USER", Absent, Noon),
          RoleChange("change_role", "USER", Str("admin"), Noon),
          RoleChange("change_role", "USER", Bool(TRUE), Noon),
          RoleChange("login_attempt", "USER", Str("ADMIN"), Noon),
          RoleChange("toggle_device", "USER", Str("ADMIN"), Noon)}

NextRole ==
    \/ \E event \in RoleEvents : api_instrument(event)
    \/ simulate_attack_activity
    \/ reset_logs

SpecRole == Init /\ [][NextRole]_vars

RoleEscalationDue(e, stored) ==
    /\ e.event_name = "change_role"
    /\ e.user_role # "ADMIN" /\ e.user_role # "MANAGER"
    /\ e.context.new_role = Str("ADMIN") \/ e.context.new_role = Str("MANAGER")

\* C13: every step that stores events appends one role_escalation record
\* for each stored change_role whose user_role is neither ADMIN nor MANAGER
\* and whose context.new_role is ADMIN or MANAGER, and no role_escalation
\* record for any other event (a change_role by an ADMIN or MANAGER, or with
\* a missing or non-privileged new_role).
C13_RoleEscalationRule ==
    [][Stores => NewlyFlagged("role_escalation") = NewlyDue(RoleEscalationDue)]_vars

\* C13 witness: an ingested change to MANAGER requested by a USER was
\* flagged, and the same change requested by an ADMIN is stored with no
\* record.
C13_Witness ==
    /\ \E j \in 1..Len(attack_logs) :
         /\ attack_logs[j].detection_type = "role_escalation"
         /\ attack_logs[j].user_role = "USER"
         /\ attack_logs[j].context.new_role = Str("MANAGER")
    /\ \E i \in 1..Len(event_history) :
         /\ event_history[i] = RoleChange("change_role", "ADMIN", Str("MANAGER"), Noon)
         /\ \A j \in 1..Len(attack_logs) : EventOf(attack_logs[j]) # event_history[i]

(***************************************************************************)
(* The event store under mixed traffic.                                    *)
(***************************************************************************)
\* The step is one POST /instrument of the mixed traffic.
IngestsMixed == \E event \in MixedEvents : api_instrument(event)

\* The store before the step is a prefix of the store after it.
KeepsStored ==
    /\ Len(event_history') >= Len(event_history)
    /\ SubSeq(event_history', 1, Len(event_history)) = event_history

\* C14: every ingestion appends exactly one record at the end of the event
\* store, leaves the records stored before it as they were, and hands that
\* record back whether or not a rule fired; and every step other than a
\* reset keeps the stored records, in order, as a prefix of the store.
C14_AppendOnlyStore ==
    [][/\ IngestsMixed => /\ StoresOne
                          /\ KeepsStored
                          /\ response'.code = 200
                          /\ response'.body = <<Ingested>>
       /\ ~reset_logs => KeepsStored]_vars

(***************************************************************************)
(* The handlers statement by statement.  Every handler is an async def     *)
(* run by the one event loop uvicorn.run starts: a request becomes a task, *)
(* the loop runs one task at a time, and a running task keeps the loop     *)
(* until it returns or reaches an await.                                   *)
(***************************************************************************)
\* api_instrument: the statements of instrument() and the return.
IngestProgram ==
    <<"stamp", "append", "check_failed_logins", "check_toggle_spam",
      "check_power_anomalies", "check_unusual_time_activity",
      "check_geo_anomalies", "check_device_impersonation",
      "check_role_escalation", "return">>

\* reset_logs: the three assignments and the return.
ResetProgram ==
    <<"clear_event_history", "clear_attack_logs", "clear_user_profiles",
      "return_reset">>

\* The seven calls of instrument() after the append.
CheckStatements == {IngestProgram[k] : k \in 3..9}

\* The statement that follows pc, "done" after the last one.
NextPc(program, pc) ==
    LET i == CHOOSE k \in 1..Len(program) : program[k] = pc
    IN  IF i = Len(program) THEN "done" ELSE program[i + 1]

\* The call a check statement makes.
RunCheck(pc, st, event) ==
    CASE pc = "check_failed_logins" -> check_failed_logins(st, event)
      [] pc = "check_toggle_spam" -> check_toggle_spam(st, event)
      [] pc = "check_power_anomalies" -> check_power_anomalies(st, event)
      [] pc = "check_unusual_time_activity" -> check_unusual_time_activity(st, event)
      [] pc = "check_geo_anomalies" -> check_geo_anomalies(st, event)
      [] pc = "check_device_impersonation" -> check_device_impersonation(st, event)
      [] pc = "check_role_escalation" -> check_role_escalation(st, event)

\* Mutant: instrument() is awaited between the append and the checks.
Awaits_before_checks(pc) == pc = "check_failed_logins"

\* The task suspends before statement pc and hands the loop to the other
\* tasks: no handler body holds an await, a call of another coroutine or
\* of a thread pool.
Awaits(pc) == FALSE

\* A request arrives: POST /instrument
Receive(r, event) ==
    /\ tasks[r].pc = "idle"
    /\ tasks' = [tasks EXCEPT ![r] = [IdleTask EXCEPT !.pc = "stamp", !.event = event]]
    /\ UNCHANGED <<event_history, attack_logs, user_profiles, response, clock,
                   ingests, sims, running>>

\* A request arrives: POST /reset-logs
ReceiveReset(r) ==
    /\ tasks[r].pc = "idle"
    /\ tasks' = [tasks EXCEPT ![r] = [IdleTask EXCEPT !.pc = "clear_event_history"]]
    /\ UNCHANGED <<event_history, attack_logs, user_profiles, response, clock,
                   ingests, sims, running>>

\* The loop runs task r, which is at statement pc: no other task holds the
\* loop.
Runs(r, pc) == running \in {0, r} /\ tasks[r].pc = pc

\* Task r moves on to statement pc as task t, and keeps the loop unless it
\* is done or suspends there.
Advance(r, t, pc) ==
    /\ tasks' = [tasks EXCEPT ![r] = [t EXCEPT !.pc = pc]]
    /\ running' = IF pc = "done" \/ Awaits(pc) THEN 0 ELSE r

\* if event.timestamp is None: event.timestamp = datetime.now()
Stamp(r) ==
    /\ Runs(r, "stamp")
    /\ \E now \in (IF tasks[r].event.timestamp = NoTimestamp THEN Nows ELSE {clock}) :
         /\ ReadsClock(now)
         /\ clock' = now
         /\ Advance(r, [tasks[r] EXCEPT !.event.timestamp =
                           IF @ = NoTimestamp THEN now ELSE @],
                    NextPc(IngestProgram, "stamp"))
    /\ UNCHANGED <<event_history, attack_logs, user_profiles, response, ingests, sims>>

\* event_history.append(event_log)
AppendEvent(r) ==
    /\ Runs(r, "append")
    /\ Len(event_history) < MaxHistory
    /\ LET st == Globals(event_history, attack_logs, user_profiles)
       IN  /\ Commit(StoreEvent(st, tasks[r].event))
           /\ Advance(r, [tasks[r] EXCEPT !.at = Len(event_history) + 1, !.seen = st],
                      NextPc(IngestProgram, "append"))
    /\ UNCHANGED <<response, clock, ingests, sims>>

\* check_...(event); an exception ends the handler with HTTP 400
Check(r) ==
    \E pc \in CheckStatements :
       /\ Runs(r, pc)
       /\ LET st == RunCheck(pc, Globals(event_history, attack_logs, user_profiles),
                             tasks[r].event)
          IN  /\ Commit(st)
              /\ IF st.ok
                 THEN /\ Advance(r, tasks[r], NextPc(IngestProgram, pc))
                      /\ UNCHANGED response
                 ELSE /\ Advance(r, tasks[r], "done")
                      /\ response' = Response(400, "error", <<>>)
       /\ UNCHANGED <<clock, ingests, sims>>

\* return {"status": "success", "event_id": result.id}
Return(r) ==
    /\ Runs(r, "return")
    /\ response' = Response(200, "success", <<EventLog(tasks[r].event)>>)
    /\ Advance(r, tasks[r], NextPc(IngestProgram, "return"))
    /\ UNCHANGED <<event_history, attack_logs, user_profiles, clock, ingests, sims>>

\* event_history = []
ClearEvents(r) ==
    /\ Runs(r, "clear_event_history")
    /\ event_history' = <<>>
    /\ Advance(r, tasks[r], NextPc(ResetProgram, "clear_event_history"))
    /\ UNCHANGED <<attack_logs, user_profiles, response, clock, ingests, sims>>

\* attack_logs = []
ClearAttacks(r) ==
    /\ Runs(r, "clear_attack_logs")
    /\ attack_logs' = <<>>
    /\ Advance(r, tasks[r], NextPc(ResetProgram, "clear_attack_logs"))
    /\ UNCHANGED <<event_history, user_profiles, response, clock, ingests, sims>>

\* user_profiles = defaultdict(dict)
ClearProfiles(r) ==
    /\ Runs(r, "clear_user_profiles")
    /\ user_profiles' = [u \in UserIds |-> NoProfile]
    /\ Advance(r, tasks[r], NextPc(ResetProgram, "clear_user_profiles"))
    /\ UNCHANGED <<event_history, attack_logs, response, clock, ingests, sims>>

\* return {"status": "logs reset"}
ReturnReset(r) ==
    /\ Runs(r, "return_reset")
    /\ response' = Response(200, "logs reset", <<>>)
    /\ Advance(r, tasks[r], NextPc(ResetProgram, "return_reset"))
    /\ UNCHANGED <<event_history, attack_logs, user_profiles, clock, ingests, sims>>

LoopEvents ==
    {FailedLogin(attacker_user, NoTimestamp),
     Login(attacker_user, TRUE, LocNY, Noon + 30),
     Login(attacker_user, TRUE, LocON, Noon + 31),
     Command("toggle_device", "USER", attacker_user, 7200),
     Reading(Str("abc"), Num(200), Noon)}

NextLoop ==
    \/ \E r \in Requests, event \in LoopEvents : Receive(r, event)
    \/ \E r \in Requests : ReceiveReset(r)
    \/ \E r \in Requests : Stamp(r)
    \/ \E r \in Requests : AppendEvent(r)
    \/ \E r \in Requests : Check(r)
    \/ \E r \in Requests : Return(r)
    \/ \E r \in Requests : ClearEvents(r)
    \/ \E r \in Requests : ClearAttacks(r)
    \/ \E r \in Requests : ClearProfiles(r)
    \/ \E r \in Requests : ReturnReset(r)

SpecLoop == Init /\ [][NextLoop]_vars

\* Task r has appended its event and has not returned.
Evaluating(r) == tasks[r].pc \in CheckStatements \cup {"return"}

\* Task r is not between its first statement and its return.
NotStarted(r) == tasks[r].pc \in {"idle", "done", "stamp", "clear_event_history"}

\* Task r ends in this step (by its return or by an exception of a check).
Completes(r) == Evaluating(r) /\ tasks'[r].pc = "done"

\* C15: with requests in flight together, while a task is between its append
\* and its return the store ends with the task's own record, on top of the
\* store the append was made on, and no other ingestion or reset is part-way
\* through; and when the task ends, the store, the attack log and the
\* profiles are the ones instrument() yields when run as one unit on the
\* globals the append was made on.
C15_AppendEvaluateUnit ==
    /\ [](\A r \in Requests :
            Evaluating(r) =>
               /\ Len(event_history) = tasks[r].at
               /\ event_history[tasks[r].at] = EventLog(tasks[r].event)
               /\ SubSeq(event_history, 1, tasks[r].at - 1) = tasks[r].seen.h
               /\ \A q \in Requests \ {r} : NotStarted(q))
    /\ [][\A r \in Requests :
            Completes(r) =>
               LET st == instrument(tasks[r].seen, tasks[r].event)
               IN  /\ event_history' = st.h
                   /\ attack_logs' = st.a
                   /\ user_profiles' = st.p]_vars

\* C15 witness: a task has appended a located login and is evaluating its
\* rules while a reset request is waiting for the loop.
C15_Witness ==
    \E r \in Requests, q \in Requests :
       /\ tasks[r].pc = "check_geo_anomalies"
       /\ tasks[r].at >= 1
       /\ tasks[r].event.context.location # Absent
       /\ tasks[q].pc = "clear_event_history"

(***************************************************************************)
(* Well-formed events after malformed ones.                                *)
(***************************************************************************)
\* The context of e is well-formed: a location, if any, is a "lat,lon"
\* string, and value and historical_avg, if any, are numbers.
WellFormed(e) ==
    /\ HasKey(e.context.location)
          => e.context.location.tag = "str" /\ e.context.location.s \in Coordinates
    /\ HasKey(e.context.value) => e.context.value.tag = "num"
    /\ HasKey(e.context.historical_avg) => e.context.historical_avg.tag = "num"

\* C16: the ingestion of an event whose own context is well-formed is
\* answered with success, whatever events were ingested before it, events
\* with a malformed context included.
C16_WellFormedIngestCompletes ==
    [][\A event \in MalformedEvents :
          api_instrument(event) /\ WellFormed(event) => response'.code = 200]_vars

(***************************************************************************)
(* The profiles under mixed traffic.                                       *)
(***************************************************************************)
\* C17: an ingestion changes no user's authorized_devices and no profile
\* but that of the ingested event's user, and that one only by setting
\* usual_locations, empty until then, to the location of the ingested
\* successful located login; a non-empty usual_locations is left as it is.
C17_ProfileFrame ==
    [][IngestsMixed =>
         \A u \in UserIds :
            /\ user_profiles'[u].authorized_devices = user_profiles[u].authorized_devices
            /\ user_profiles[u].usual_locations # <<>>
                  => user_profiles'[u].usual_locations = user_profiles[u].usual_locations
            /\ user_profiles'[u] # user_profiles[u]
                  => /\ u = Ingested.user_id
                     /\ IsLocatedLogin(Ingested)
                     /\ user_profiles[u].usual_locations = <<>>
                     /\ user_profiles'[u].usual_locations
                           = <<Ingested.context.location.s>>]_vars

\* C17 witness: a user's first located login seeded the profile, a second
\* one from another place was ingested after it, and the usual location is
\* still the first.
C17_Witness ==
    /\ user_profiles["user_normal_567"].usual_locations = <<LocNY>>
    /\ Len(event_history) >= 2
    /\ event_history[Len(event_history)] = Login("user_normal_567", TRUE, LocOver, Noon + 31)
    /\ \E i \in 1..(Len(event_history) - 1) :
          event_history[i] = Login("user_normal_567", TRUE, LocNY, Noon + 30)

(***************************************************************************)
(* The attack log under mixed traffic.                                     *)
(***************************************************************************)
\* The place of a detection type in the order the rules are evaluated in.
RuleRank(detection_type) ==
    CASE detection_type = "failed_login" -> 1
      [] detection_type = "toggle_spam" -> 2
      [] detection_type = "power_anomaly" -> 3
      [] detection_type = "unusual_time" -> 4
      [] detection_type = "geo_anomaly" -> 5
      [] detection_type = "device_impersonation" -> 6
      [] detection_type = "role_escalation" -> 7

\* The attack log before the step is a prefix of the log after it.
KeepsLogged ==
    /\ Len(attack_logs') >= Len(attack_logs)
    /\ SubSeq(attack_logs', 1, Len(attack_logs)) = attack_logs

\* C18: the records an ingestion appends come after all records logged
\* before it, which stay as they were, all carry the ingested event, and
\* follow one another in the order failed_login, toggle_spam, power_anomaly,
\* unusual_time, geo_anomaly, device_impersonation, role_escalation, each
\* type at most once.
C18_RuleOrder ==
    [][IngestsMixed =>
         /\ KeepsLogged
         /\ \A k \in 1..Len(NewAttacks) : EventOf(NewAttacks[k]) = Ingested
         /\ \A k \in 1..Len(NewAttacks) : \A l \in (k + 1)..Len(NewAttacks) :
               RuleRank(NewAttacks[k].detection_type)
                  < RuleRank(NewAttacks[l].detection_type)]_vars

\* C18 witness: the log ends with the toggle_spam, unusual_time and
\* device_impersonation records, in that order, of one ingested off-hours
\* toggle from an unauthorized device, after the records of earlier events.
C18_Witness ==
    /\ Len(attack_logs) > 3
    /\ LET n == Len(attack_logs)
       IN  /\ attack_logs[n - 2].detection_type = "toggle_spam"
           /\ attack_logs[n - 1].detection_type = "unusual_time"
           /\ attack_logs[n].detection_type = "device_impersonation"
           /\ \A k \in (n - 2)..n :
                 EventOf(attack_logs[k])
                    = Command("toggle_device", "USER", attacker_user, 7200)
           /\ EventOf(attack_logs[n - 3]).source_id # "10.0.0.7"

(***************************************************************************)
(* Logins with several far logins behind them: what a geo_anomaly record   *)
(* reports.                                                                *)
(***************************************************************************)
ReportEvents ==
    {Login(attacker_user, TRUE, LocON, Noon + 50),
     Login(attacker_user, TRUE, LocNY, Noon + 20),
     Login(attacker_user, TRUE, LocNear, Noon + 15),
     Login(attacker_user, TRUE, LocCT, Noon + 5),
     Login(normal_user, TRUE, LocON, NoTimestamp)}

NextReport ==
    \/ \E event \in ReportEvents : api_instrument(event)
    \/ simulate_normal_activity
    \/ simulate_attack_activity
    \/ reset_logs

SpecReport == Init /\ [][NextReport]_vars

\* The smallest index of a non-empty set of store indices: the
\* earliest-ingested of the logins it holds.
EarliestIngested(indices) == CHOOSE i \in indices : \A j \in indices : i <= j

\* C19: when two or more previously stored successful located logins of the
\* user, stamped inside the 1-minute window that ends at the new login's
\* timestamp, are more than 500 m from the new location, the ingestion
\* appends exactly one geo_anomaly record, and the record reports the
\* location of (and the distance to) the earliest-ingested of them.
C19_GeoReportsEarliestIngested ==
    [][StoresOne /\ IsLocatedLogin(Ingested)
          /\ Cardinality(FarLoginsInWindow(Ingested, event_history)) >= 2
       => /\ GeoFlagged
          /\ LET first == event_history[EarliestIngested(
                               FarLoginsInWindow(Ingested, event_history))]
                 record == attack_logs'[Len(attack_logs')]
             IN  /\ record.detection_type = "geo_anomaly"
                 /\ record.message.strs
                       = <<Ingested.context.location.s, first.context.location.s>>
                 /\ record.message.nums
                       = <<DistanceDm(first.context.location.s,
                                      Ingested.context.location.s)>>]_vars

(***************************************************************************)
(* How many records one ingestion appends.                                 *)
(***************************************************************************)
\* An off-hours event from an unknown device whose context holds what every
\* rule reads.
Loaded(name, success) ==
    Event(name, "USER", attacker_user, "10.0.0.7", 7200,
          [EmptyContext EXCEPT !.success = Bool(success), !.location = Str(LocON),
                               !.value = Num(0), !.historical_avg = Num(400),
                               !.new_role = Str("ADMIN")])

CountedEvents ==
    {Loaded(name, TRUE) :
        name \in {"login_attempt", "power_reading", "set_power_level", "change_role",
                  "toggle_device", "adjust_device", "logout"}}
    \cup {Loaded("login_attempt", FALSE)}

NextCounted ==
    \/ \E event \in CountedEvents : api_instrument(event)
    \/ simulate_normal_activity
    \/ simulate_attack_activity
    \/ reset_logs

SpecCounted == Init /\ [][NextCounted]_vars

\* The most records the ingestion of an event of this name can append.
MostRecords(event_name) ==
    IF event_name \in {"toggle_device", "adjust_device"} THEN 3
    ELSE IF event_name \in {"login_attempt", "power_reading", "set_power_level",
                            "change_role"} THEN 1
    ELSE 0

\* C20: no event has both a failed_login and a geo_anomaly record in the
\* log, and an ingestion appends records of pairwise distinct detection
\* types: at most 3 for a toggle_device or adjust_device, at most 1 for a
\* login_attempt, power_reading, set_power_level or change_role, and none
\* for an event of any other name.
C20_RecordsPerIngest ==
    /\ [](\A j \in 1..Len(attack_logs) : \A k \in 1..Len(attack_logs) :
            EventOf(attack_logs[j]) = EventOf(attack_logs[k])
               => ~(/\ attack_logs[j].detection_type = "failed_login"
                    /\ attack_logs[k].detection_type = "geo_anomaly"))
    /\ [][(\E event \in CountedEvents : api_instrument(event)) =>
            /\ Len(NewAttacks) <= MostRecords(Ingested.event_name)
            /\ \A k \in 1..Len(NewAttacks) : \A l \in 1..Len(NewAttacks) :
                  k # l => NewAttacks[k].detection_type # NewAttacks[l].detection_type]_vars

\* C20 witness: the ingestion of an off-hours adjust_device appended three
\* records, and a stored logout with the same role, source, timestamp and
\* context keys has none.
C20_Witness ==
    /\ Len(attack_logs) >= 3
    /\ \A k \in (Len(attack_logs) - 2)..Len(attack_logs) :
          EventOf(attack_logs[k]) = Loaded("adjust_device", TRUE)
    /\ \E i \in 1..Len(event_history) :
          /\ event_history[i] = Loaded("logout", TRUE)
          /\ \A j \in 1..Len(attack_logs) : EventOf(attack_logs[j]) # event_history[i]

====
